---- MODULE Spec2Model ----
(***************************************************************************)
(* State-machine model of ReviewScraper (src/review_scraper.py).           *)
(*                                                                         *)
(* One scraper object (self.reviews, self.errors), the file system it      *)
(* exports to, and the frame of scrape_multiple_pages, which is stepped    *)
(* through fetch / extract / sleep so that the order of those steps is     *)
(* observable.  All other methods are single atomic actions: the program   *)
(* is single-threaded, so nothing interleaves with a call.                 *)
(*                                                                         *)
(* Encodings                                                               *)
(*   text        sequence of one-character strings, " " being whitespace   *)
(*   Optional    None == <<>>, Some(x) == <<x>>                            *)
(*   dict        sequence of <<key, value>> pairs in insertion order       *)
(*   f-string    tuple of its literal and interpolated parts               *)
(***************************************************************************)
EXTENDS Integers, Sequences, FiniteSets, TLC

(***************************************************************************)
(* Bounds of the model.                                                    *)
(***************************************************************************)
MaxUrls == 2
MaxContainers == 2
MaxErrors == 2

(***************************************************************************)
(* Optional values.                                                        *)
(***************************************************************************)
None == <<>>
Some(x) == <<x>>

(***************************************************************************)
(* str.strip(): drop leading and trailing whitespace.                      *)
(***************************************************************************)
RECURSIVE lstrip(_)
lstrip(s) ==
    IF s # <<>> /\ Head(s) = " " THEN lstrip(Tail(s)) ELSE s

RECURSIVE rstrip(_)
rstrip(s) ==
    IF s # <<>> /\ s[Len(s)] = " " THEN rstrip(SubSeq(s, 1, Len(s) - 1)) ELSE s

strip(s) == rstrip(lstrip(s))

(***************************************************************************)
(* The six sub-fields of a review, in the order the dict literal of        *)
(* extract_reviews inserts them.                                           *)
(***************************************************************************)
Fields == <<"title", "author", "rating", "date", "text", "helpful">>

FieldSet == {Fields[k] : k \in 1..Len(Fields)}

(***************************************************************************)
(* A review container of a parsed document: for each sub-field marker,     *)
(* what container.find(...) returns: None, or the element's raw text.      *)
(***************************************************************************)
RawText(f) ==
    CASE f = "title"   -> <<" ", "a", " ">>
      [] f = "author"  -> <<"n">>
      [] f = "rating"  -> <<"5", " ">>
      [] f = "date"    -> <<"d">>
      [] f = "text"    -> <<" ", "t">>
      [] f = "helpful" -> <<"0">>

WellFormedA == [f \in FieldSet |-> Some(RawText(f))]

WellFormedB == [WellFormedA EXCEPT !["title"] = Some(<<"b">>)]

Missing(f) == [WellFormedA EXCEPT ![f] = None]

MissingTwo == [WellFormedB EXCEPT !["title"] = None, !["text"] = None]

Containers ==
    {WellFormedA, WellFormedB, MissingTwo} \cup {Missing(f) : f \in FieldSet}

PageContainers == {WellFormedA, WellFormedB, Missing("rating")}

SeqsUpTo(S, n) == UNION {[1..k -> S] : k \in 0..n}

\* documents handed to extract_reviews directly
Docs == SeqsUpTo(Containers, MaxContainers)

\* documents the web serves during a scrape
PageDocs == SeqsUpTo(PageContainers, MaxContainers)

(***************************************************************************)
(* Error-log entries (the f-strings of the except clauses).                *)
(***************************************************************************)
FetchError(url, cause) == <<"Failed to fetch ", url, ": ", cause>>

ParseError(cause) == <<"Failed to parse review: ", cause>>

CsvError(cause) == <<"Failed to export CSV: ", cause>>

JsonError(cause) == <<"Failed to export JSON: ", cause>>

\* str(e) of the AttributeError raised by None.text
NoneTypeHasNoText == "'NoneType' object has no attribute 'text'"

(***************************************************************************)
(* extract_reviews: the body of the try block for one container.  The      *)
(* dict literal evaluates its six values in order; the first None raises   *)
(* AttributeError and no dict is built.                                    *)
(***************************************************************************)
RaisesAttributeError(container) ==
    \E k \in 1..Len(Fields) : container[Fields[k]] = None

BuildReview(container) ==
    [k \in 1..Len(Fields) |-> <<Fields[k], strip(container[Fields[k]][1])>>]

\* a bug: the except clause ends the loop (break) instead of going on (continue)
RECURSIVE ExtractLoop_StopsAtMalformed(_, _, _, _)
ExtractLoop_StopsAtMalformed(soup, k, acc, errs) ==
    IF k > Len(soup)
    THEN [reviews |-> acc, errors |-> errs]
    ELSE IF RaisesAttributeError(soup[k])
         THEN [reviews |-> acc,
               errors |-> Append(errs, ParseError(NoneTypeHasNoText))]
         ELSE ExtractLoop_StopsAtMalformed(soup, k + 1,
                                           Append(acc, BuildReview(soup[k])), errs)

(***************************************************************************)
(* extract_reviews: the for loop over the containers, from position k,     *)
(* with the local list `acc` and the error log `errs`.                     *)
(***************************************************************************)
RECURSIVE ExtractLoop(_, _, _, _)
ExtractLoop(soup, k, acc, errs) ==
    IF k > Len(soup)
    THEN [reviews |-> acc, errors |-> errs]
    ELSE IF RaisesAttributeError(soup[k])
         THEN ExtractLoop(soup, k + 1, acc,
                          Append(errs, ParseError(NoneTypeHasNoText)))
         ELSE ExtractLoop(soup, k + 1, Append(acc, BuildReview(soup[k])), errs)

extract_reviews(soup, errs) == ExtractLoop(soup, 1, <<>>, errs)

(***************************************************************************)
(* The environment: the web and the file system.                           *)
(***************************************************************************)
Urls == {"page1", "page2"}

UrlLists == SeqsUpTo(Urls, MaxUrls)

\* default of the parameter `delay`
DefaultDelay == 1

\* the delay example.py passes
ExampleDelay == 2

\* what requests.get / raise_for_status can raise, as [cls, msg]
HTTPError500 == [cls |-> "HTTPError", msg |-> "500 Server Error"]

ReadTimeout == [cls |-> "Timeout", msg |-> "Read timed out"]

FetchExceptions == {HTTPError500, ReadTimeout}

\* the subclasses of requests.RequestException
RequestExceptionClasses ==
    {"RequestException", "HTTPError", "ConnectionError", "Timeout"}

\* what one GET can do: deliver a document or raise
Responses(docs, excs) ==
    {<<"ok", d>> : d \in docs} \cup {<<"raise", e>> : e \in excs}

Filenames == {"reviews.csv"}

\* state of a destination: writable, open() refused, or no room for the data
DiskStates == {"ok", "denied", "full"}

\* datetime.now().isoformat() readings
Times == {"T1", "T2"}

VARIABLES
    reviews,      \* self.reviews
    errors,       \* self.errors
    files,        \* file system: filename -> None or Some(content)
    disk,         \* file system: filename -> state of the destination
    pc,           \* "idle", or the position inside scrape_multiple_pages
    page_urls,    \* scrape_multiple_pages: argument
    delay,        \* scrape_multiple_pages: argument
    i,            \* scrape_multiple_pages: loop index of enumerate(page_urls, 1)
    all_reviews,  \* scrape_multiple_pages: local list
    soup,         \* scrape_multiple_pages: local, result of fetch_page
    ret,          \* return value of the last completed call
    last,         \* <<name, argument>> of the last call or environment event
    rep,          \* TRUE iff `last` repeats the event just before it
    errors0,      \* Len(self.errors) when the last call began
    trace         \* events of the scrape run in progress or just returned

vars ==
    <<reviews, errors, files, disk, pc, page_urls, delay, i, all_reviews,
      soup, ret, last, rep, errors0, trace>>

frame == <<pc, page_urls, delay, i, all_reviews, soup>>

(***************************************************************************)
(* __init__                                                                *)
(***************************************************************************)
Init ==
    /\ reviews = <<>>
    /\ errors = <<>>
    /\ files = [f \in Filenames |-> None]
    /\ disk = [f \in Filenames |-> "ok"]
    /\ pc = "idle"
    /\ page_urls = <<>>
    /\ delay = DefaultDelay
    /\ i = 0
    /\ all_reviews = <<>>
    /\ soup = None
    /\ ret = None
    /\ last = <<"__init__", None>>
    /\ rep = FALSE
    /\ errors0 = 0
    /\ trace = <<>>

\* bookkeeping of one completed event
Event(name, arg) ==
    /\ last' = <<name, arg>>
    /\ rep' = (last = <<name, arg>>)
    /\ errors0' = Len(errors)
    /\ trace' = <<>>

\* a bug: the except clause names requests.HTTPError, so a timeout escapes
fetch_page_CatchesHTTPErrorOnly(url, response, errs) ==
    IF response[1] = "ok"
    THEN [ret |-> Some(response[2]), errors |-> errs, raised |-> FALSE]
    ELSE IF response[2].cls = "HTTPError"
         THEN [ret |-> None,
               errors |-> Append(errs, FetchError(url, response[2].msg)),
               raised |-> FALSE]
         ELSE [ret |-> None, errors |-> errs, raised |-> TRUE]

(***************************************************************************)
(* fetch_page: the try/except around requests.get.  `response` is what     *)
(* the GET does.  Result: the value returned, the error log, and whether   *)
(* an exception leaves the method.                                         *)
(***************************************************************************)
fetch_page(url, response, errs) ==
    IF response[1] = "ok"
    THEN [ret |-> Some(response[2]), errors |-> errs, raised |-> FALSE]
    ELSE IF response[2].cls \in RequestExceptionClasses
         THEN [ret |-> None,
               errors |-> Append(errs, FetchError(url, response[2].msg)),
               raised |-> FALSE]
         ELSE [ret |-> None, errors |-> errs, raised |-> TRUE]

\* `if soup:` a BeautifulSoup object is always truthy, None is falsy
Truthy(s) == s # None

(***************************************************************************)
(* scrape_multiple_pages, line by line.                                    *)
(***************************************************************************)
\* line 90: all_reviews = []
ScrapeStart(urls, d) ==
    /\ pc = "idle"
    /\ Len(errors) < MaxErrors
    /\ pc' = "fetch"
    /\ page_urls' = urls
    /\ delay' = d
    /\ i' = 1
    /\ all_reviews' = <<>>
    /\ soup' = None
    /\ Event("scrape_multiple_pages", <<urls, d>>)
    /\ UNCHANGED <<reviews, errors, files, disk, ret>>

\* line 94: soup = self.fetch_page(url)
ScrapeFetch(response) ==
    /\ pc = "fetch"
    /\ i <= Len(page_urls)
    /\ LET r == fetch_page(page_urls[i], response, errors) IN
         /\ errors' = r.errors
         /\ soup' = r.ret
         /\ pc' = IF r.raised THEN "raised" ELSE "extract"
    /\ trace' = Append(trace, <<"fetch", i, page_urls[i], response>>)
    /\ UNCHANGED <<reviews, files, disk, page_urls, delay, i, all_reviews,
                   ret, last, rep, errors0>>

\* a bug: the page's reviews are put in front of the ones collected so far
ScrapeExtract_Prepends ==
    /\ pc = "extract"
    /\ IF soup # None
       THEN LET r == extract_reviews(soup[1], errors) IN
              /\ all_reviews' = r.reviews \o all_reviews
              /\ errors' = r.errors
              /\ trace' = Append(trace, <<"extract", i>>)
       ELSE UNCHANGED <<all_reviews, errors, trace>>
    /\ pc' = "delay"
    /\ UNCHANGED <<reviews, files, disk, page_urls, delay, i, soup,
                   ret, last, rep, errors0>>

\* lines 96-99: if soup: all_reviews.extend(self.extract_reviews(soup))
ScrapeExtract ==
    /\ pc = "extract"
    /\ IF Truthy(soup)
       THEN LET r == extract_reviews(soup[1], errors) IN
              /\ all_reviews' = all_reviews \o r.reviews
              /\ errors' = r.errors
              /\ trace' = Append(trace, <<"extract", i>>)
       ELSE UNCHANGED <<all_reviews, errors, trace>>
    /\ pc' = "delay"
    /\ UNCHANGED <<reviews, files, disk, page_urls, delay, i, soup,
                   ret, last, rep, errors0>>

\* a bug: the pause is taken after every URL, the last one included
ScrapeDelay_AfterEveryUrl ==
    /\ pc = "delay"
    /\ trace' = Append(trace, <<"sleep", delay>>)
    /\ i' = i + 1
    /\ pc' = "fetch"
    /\ UNCHANGED <<reviews, errors, files, disk, page_urls, delay,
                   all_reviews, soup, ret, last, rep, errors0>>

\* lines 101-102: if i < len(page_urls): time.sleep(delay); then the next i
ScrapeDelay ==
    /\ pc = "delay"
    /\ trace' = IF i < Len(page_urls)
                THEN Append(trace, <<"sleep", delay>>)
                ELSE trace
    /\ i' = i + 1
    /\ pc' = "fetch"
    /\ UNCHANGED <<reviews, errors, files, disk, page_urls, delay,
                   all_reviews, soup, ret, last, rep, errors0>>

\* a bug: self.reviews.extend(all_reviews) instead of the assignment
ScrapeReturn_Extends ==
    /\ pc = "fetch"
    /\ i > Len(page_urls)
    /\ reviews' = reviews \o all_reviews
    /\ ret' = all_reviews
    /\ pc' = "idle"
    /\ page_urls' = <<>>
    /\ delay' = DefaultDelay
    /\ i' = 0
    /\ all_reviews' = <<>>
    /\ soup' = None
    /\ UNCHANGED <<errors, files, disk, last, rep, errors0, trace>>

\* lines 104-105: self.reviews = all_reviews; return all_reviews
ScrapeReturn ==
    /\ pc = "fetch"
    /\ i > Len(page_urls)
    /\ reviews' = all_reviews
    /\ ret' = all_reviews
    /\ pc' = "idle"
    \* the frame is gone
    /\ page_urls' = <<>>
    /\ delay' = DefaultDelay
    /\ i' = 0
    /\ all_reviews' = <<>>
    /\ soup' = None
    /\ UNCHANGED <<errors, files, disk, last, rep, errors0, trace>>

(***************************************************************************)
(* fetch_page and extract_reviews called directly on the scraper.          *)
(***************************************************************************)
FetchPage(url, response) ==
    /\ pc = "idle"
    /\ Len(errors) < MaxErrors
    /\ LET r == fetch_page(url, response, errors) IN
         /\ errors' = r.errors
         /\ ret' = r.ret
         /\ pc' = IF r.raised THEN "raised" ELSE "idle"
    /\ Event("fetch_page", url)
    /\ UNCHANGED <<reviews, files, disk, page_urls, delay, i, all_reviews, soup>>

ExtractReviews(doc) ==
    /\ pc = "idle"
    /\ Len(errors) < MaxErrors
    /\ LET r == extract_reviews(doc, errors) IN
         /\ errors' = r.errors
         /\ ret' = r.reviews
    /\ Event("extract_reviews", doc)
    /\ UNCHANGED <<reviews, files, disk, frame>>

(***************************************************************************)
(* dicts as sequences of <<key, value>> pairs.                             *)
(***************************************************************************)
Keys(d) == [k \in 1..Len(d) |-> d[k][1]]

HasKey(d, key) == \E k \in 1..Len(d) : d[k][1] = key

Get(d, key) == d[CHOOSE k \in 1..Len(d) : d[k][1] = key][2]

Range(s) == {s[k] : k \in 1..Len(s)}

(***************************************************************************)
(* csv.DictWriter(f, fieldnames=keys): writeheader() and writerows().      *)
(* A line is the sequence of its cells; a row dict with a key outside      *)
(* fieldnames raises ValueError, a key it lacks is written as restval ''.  *)
(***************************************************************************)
CsvHeader(fieldnames) == [k \in 1..Len(fieldnames) |-> <<"name", fieldnames[k]>>]

CsvRow(fieldnames, row) ==
    [k \in 1..Len(fieldnames) |->
        IF HasKey(row, fieldnames[k])
        THEN <<"cell", Get(row, fieldnames[k])>>
        ELSE <<"cell", <<>>>>]

CsvRaisesValueError(fieldnames, rows) ==
    \E n \in 1..Len(rows) : ~(Range(Keys(rows[n])) \subseteq Range(fieldnames))

\* a bug: the first record is used for the header only and not written as a row
CsvText_SkipsFirstRow(rows) ==
    LET keys == Keys(rows[1]) IN
      <<CsvHeader(keys)>> \o [n \in 1..(Len(rows) - 1) |-> CsvRow(keys, rows[n + 1])]

CsvText(rows) ==
    LET keys == Keys(rows[1]) IN
      <<CsvHeader(keys)>> \o [n \in 1..Len(rows) |-> CsvRow(keys, rows[n])]

(***************************************************************************)
(* json.dump(self.reviews, f, indent=2, ensure_ascii=False): the tokens    *)
(* of the array, one object per element, members in insertion order.       *)
(***************************************************************************)
JsonObject(d) ==
    <<<<"{">>>> \o [k \in 1..Len(d) |-> <<"member", d[k][1], d[k][2]>>] \o <<<<"}">>>>

RECURSIVE JsonItems(_, _)
JsonItems(list, k) ==
    IF k > Len(list) THEN <<>> ELSE JsonObject(list[k]) \o JsonItems(list, k + 1)

JsonText(list) == <<<<"[">>>> \o JsonItems(list, 1) \o <<<<"]">>>>

\* a bug: the file is opened with mode 'a'
WriteFile_Appends(st, old, text) ==
    CASE st = "ok"     -> [content |-> Some((IF old = None THEN <<>> ELSE old[1]) \o text),
                           raised |-> None]
      [] st = "denied" -> [content |-> old, raised |-> Some("Permission denied")]
      [] st = "full"   -> [content |-> IF old = None THEN Some(<<>>) ELSE old,
                           raised |-> Some("No space left on device")]

(***************************************************************************)
(* open(filename, 'w') and the writes inside the with block, on a          *)
(* destination in state `st` holding `old`: the content left behind and    *)
(* the message of the OSError raised, if any.  A refused open() leaves the *)
(* file as it was; a write that finds no room leaves the file truncated.   *)
(***************************************************************************)
WriteFile(st, old, text) ==
    CASE st = "ok"     -> [content |-> Some(text), raised |-> None]
      [] st = "denied" -> [content |-> old, raised |-> Some("Permission denied")]
      [] st = "full"   -> [content |-> Some(<<>>),
                           raised |-> Some("No space left on device")]

\* a bug: the except clause assigns self.errors instead of appending to it
export_to_csv_ResetsLog(revs, errs, st, old) ==
    IF revs = <<>>
    THEN [ret |-> FALSE, errors |-> errs, content |-> old]
    ELSE LET w == WriteFile(st, old, CsvText(revs)) IN
           IF w.raised = None
           THEN [ret |-> TRUE, errors |-> errs, content |-> w.content]
           ELSE [ret |-> FALSE,
                 errors |-> <<CsvError(w.raised[1])>>,
                 content |-> w.content]

(***************************************************************************)
(* export_to_csv                                                           *)
(***************************************************************************)
export_to_csv(revs, errs, st, old) ==
    IF revs = <<>>
    THEN [ret |-> FALSE, errors |-> errs, content |-> old]
    ELSE LET keys == Keys(revs[1])
             bad == CsvRaisesValueError(keys, revs)
             w == WriteFile(st, old, IF bad THEN <<CsvHeader(keys)>> ELSE CsvText(revs))
             exc == IF w.raised # None THEN w.raised
                    ELSE IF bad THEN Some("dict contains fields not in fieldnames")
                    ELSE None
         IN IF exc = None
            THEN [ret |-> TRUE, errors |-> errs, content |-> w.content]
            ELSE [ret |-> FALSE,
                  errors |-> Append(errs, CsvError(exc[1])),
                  content |-> w.content]

ExportCsv(filename) ==
    /\ pc = "idle"
    /\ Len(errors) < MaxErrors
    /\ LET r == export_to_csv(reviews, errors, disk[filename], files[filename]) IN
         /\ ret' = r.ret
         /\ errors' = r.errors
         /\ files' = [files EXCEPT ![filename] = r.content]
    /\ Event("export_to_csv", filename)
    /\ UNCHANGED <<reviews, disk, frame>>

\* a bug: the except clause returns False without recording the failure
export_to_json_Silent(revs, errs, st, old) ==
    IF revs = <<>>
    THEN [ret |-> FALSE, errors |-> errs, content |-> old]
    ELSE LET w == WriteFile(st, old, JsonText(revs)) IN
           [ret |-> w.raised = None, errors |-> errs, content |-> w.content]

(***************************************************************************)
(* export_to_json                                                          *)
(***************************************************************************)
export_to_json(revs, errs, st, old) ==
    IF revs = <<>>
    THEN [ret |-> FALSE, errors |-> errs, content |-> old]
    ELSE LET w == WriteFile(st, old, JsonText(revs)) IN
           IF w.raised = None
           THEN [ret |-> TRUE, errors |-> errs, content |-> w.content]
           ELSE [ret |-> FALSE,
                 errors |-> Append(errs, JsonError(w.raised[1])),
                 content |-> w.content]

ExportJson(filename) ==
    /\ pc = "idle"
    /\ Len(errors) < MaxErrors
    /\ LET r == export_to_json(reviews, errors, disk[filename], files[filename]) IN
         /\ ret' = r.ret
         /\ errors' = r.errors
         /\ files' = [files EXCEPT ![filename] = r.content]
    /\ Event("export_to_json", filename)
    /\ UNCHANGED <<reviews, disk, frame>>

\* a bug: the `if not self.reviews` guard is missing
get_statistics_Unguarded(revs, errs, now) ==
    << <<"total_reviews", Len(revs)>>,
       <<"scrape_date", now>>,
       <<"total_errors", Len(errs)>> >>

(***************************************************************************)
(* get_statistics, `now` being the clock reading.                          *)
(***************************************************************************)
get_statistics(revs, errs, now) ==
    IF revs = <<>>
    THEN <<>>
    ELSE << <<"total_reviews", Len(revs)>>,
            <<"scrape_date", now>>,
            <<"total_errors", Len(errs)>> >>

GetStatistics(now) ==
    /\ pc = "idle"
    /\ ret' = get_statistics(reviews, errors, now)
    /\ Event("get_statistics", None)
    /\ UNCHANGED <<reviews, errors, files, disk, frame>>

(***************************************************************************)
(* The environment changes the state of a destination.                     *)
(***************************************************************************)
SetDisk(filename, st) ==
    /\ pc = "idle"
    /\ disk[filename] # st
    /\ disk' = [disk EXCEPT ![filename] = st]
    /\ Event("environment", filename)
    /\ UNCHANGED <<reviews, errors, files, ret, frame>>

(***************************************************************************)
(* The scraper in use: any call, in any order, on a small web.             *)
(***************************************************************************)
SessionUrlLists == {<<>>, <<"page1">>, <<"page1", "page2">>}

SessionDocs == {<<WellFormedA, WellFormedB>>, <<Missing("rating")>>}

SessionResponses == Responses(SessionDocs, {HTTPError500})


Next ==
    \/ \E urls \in SessionUrlLists : ScrapeStart(urls, DefaultDelay)
    \/ \E r \in SessionResponses : ScrapeFetch(r)
    \/ ScrapeExtract
    \/ ScrapeDelay
    \/ ScrapeReturn
    \/ \E u \in Urls, r \in SessionResponses : FetchPage(u, r)
    \/ \E doc \in SessionDocs : ExtractReviews(doc)
    \/ \E f \in Filenames : ExportCsv(f)
    \/ \E f \in Filenames : ExportJson(f)
    \/ \E now \in Times : GetStatistics(now)
    \/ \E f \in Filenames, st \in DiskStates : SetDisk(f, st)

Spec == Init /\ [][Next]_vars

(***************************************************************************)
(* scrape_multiple_pages alone, on every URL list and page of the bounds.  *)
(***************************************************************************)
NextScrape ==
    \/ \E urls \in UrlLists : last[1] = "__init__" /\ ScrapeStart(urls, ExampleDelay)
    \/ \E r \in Responses(PageDocs, FetchExceptions) : ScrapeFetch(r)
    \/ ScrapeExtract
    \/ ScrapeDelay
    \/ ScrapeReturn

SpecScrape == Init /\ [][NextScrape]_vars

(***************************************************************************)
(* extract_reviews alone, on every document of the bound.                  *)
(***************************************************************************)
NextExtract == \E doc \in Docs : ExtractReviews(doc)

SpecExtract == Init /\ [][NextExtract]_vars

(***************************************************************************)
(* Vocabulary of the properties.                                           *)
(***************************************************************************)
\* scrape_multiple_pages has just returned
Returned == pc = "idle" /\ last[1] = "scrape_multiple_pages"

\* the arguments of the scrape run in progress or just returned
RunUrls == last[2][1]

RunDelay == last[2][2]

\* what the last call appended to the error log
NewErrors == SubSeq(errors, errors0 + 1, Len(errors))

IsPrefix(a, b) == Len(a) <= Len(b) /\ SubSeq(b, 1, Len(a)) = a

IsFetchEvent(e) == e[1] = "fetch"

IsSleepEvent(e) == e[1] = "sleep"

IsNotExtractEvent(e) == e[1] # "extract"

FetchEvents == SelectSeq(trace, IsFetchEvent)

FetchFailed(e) == e[4][1] = "raise"

FetchSucceeded(e) == e[4][1] = "ok"

FetchedDoc(e) == e[4][2]

IsFetchErrorEntry(entry) == entry[1] = "Failed to fetch "

WellFormed(container) == \A f \in FieldSet : container[f] # None

CountWellFormed(doc) == Cardinality({k \in 1..Len(doc) : WellFormed(doc[k])})

RECURSIVE SumWellFormed(_)
SumWellFormed(fetches) ==
    IF fetches = <<>> THEN 0
    ELSE (IF FetchSucceeded(Head(fetches))
          THEN CountWellFormed(FetchedDoc(Head(fetches))) ELSE 0)
         + SumWellFormed(Tail(fetches))

RECURSIVE ConcatPages(_)
ConcatPages(fetches) ==
    IF fetches = <<>> THEN <<>>
    ELSE (IF FetchSucceeded(Head(fetches))
          THEN extract_reviews(FetchedDoc(Head(fetches)), <<>>).reviews ELSE <<>>)
         \o ConcatPages(Tail(fetches))

(***************************************************************************)
(* C1.  No fetch failure is fatal to a run of scrape_multiple_pages: no    *)
(* exception leaves the run; when it has returned, every URL was fetched,  *)
(* every URL whose fetch failed has exactly one entry "Failed to fetch     *)
(* {url}: {cause}" in the log, in URL order, was not extracted and gave no *)
(* review, and the pages that were fetched gave theirs.  If every fetch    *)
(* failed the result is empty and the log gained one entry per URL; if, of *)
(* two pages, the first has only well-formed containers and the second     *)
(* fails, the result has one review per container of the first and the log *)
(* gained one entry, naming the second URL.                                *)
(***************************************************************************)
C1_FetchFailureNotFatal ==
    /\ pc # "raised"
    /\ \A p \in 1..Len(trace) :
         (IsFetchEvent(trace[p]) /\ FetchFailed(trace[p]))
            => \A q \in 1..Len(trace) : trace[q] # <<"extract", trace[p][2]>>
    /\ Returned =>
         LET failed == SelectSeq(FetchEvents, FetchFailed) IN
           /\ Len(FetchEvents) = Len(RunUrls)
           /\ SelectSeq(NewErrors, IsFetchErrorEntry)
                = [k \in 1..Len(failed) |->
                     <<"Failed to fetch ", failed[k][3], ": ", failed[k][4][2].msg>>]
           /\ Len(ret) = SumWellFormed(FetchEvents)
           /\ reviews = ret
           /\ Len(failed) = Len(RunUrls)
                => ret = <<>> /\ Len(NewErrors) = Len(RunUrls)
           /\ ( /\ Len(RunUrls) = 2
                /\ FetchSucceeded(FetchEvents[1])
                /\ CountWellFormed(FetchedDoc(FetchEvents[1]))
                     = Len(FetchedDoc(FetchEvents[1]))
                /\ FetchFailed(FetchEvents[2]) )
                => /\ Len(ret) = Len(FetchedDoc(FetchEvents[1]))
                   /\ Len(NewErrors) = 1
                   /\ NewErrors[1][1] = "Failed to fetch "
                   /\ NewErrors[1][2] = RunUrls[2]

\* page 1 delivers MaxContainers well-formed containers, page 2 answers HTTP 500
C1_Witness ==
    /\ Returned
    /\ RunUrls = <<"page1", "page2">>
    /\ Len(FetchEvents) = 2
    /\ FetchSucceeded(FetchEvents[1])
    /\ Len(FetchedDoc(FetchEvents[1])) = MaxContainers
    /\ CountWellFormed(FetchedDoc(FetchEvents[1])) = MaxContainers
    /\ FetchFailed(FetchEvents[2])
    /\ Len(ret) = MaxContainers
    /\ errors = <<<<"Failed to fetch ", "page2", ": ", "500 Server Error">>>>

SleepCount == Len(SelectSeq(trace, IsSleepEvent))

AllFetchesSucceeded ==
    \A k \in 1..Len(FetchEvents) : FetchSucceeded(FetchEvents[k])

(***************************************************************************)
(* C2 as the specification states it: for every URL list of length N whose *)
(* fetches all succeed, the delay step has executed exactly N - 1 times    *)
(* when the run returns.                                                   *)
(***************************************************************************)
C2_Original ==
    (Returned /\ AllFetchesSucceeded) => SleepCount = Len(RunUrls) - 1

(***************************************************************************)
(* C2, amended.  When the run returns, the delay step has executed N - 1   *)
(* times for a list of N >= 1 URLs and not at all for the empty list; the  *)
(* fetches and pauses alternate, starting and ending with a fetch: one     *)
(* pause of `delay` after each URL that is not the last, none before the   *)
(* first fetch and none after the last URL.                                *)
(***************************************************************************)
C2_DelayBetweenUrls ==
    Returned =>
      LET n == Len(RunUrls)
          steps == SelectSeq(trace, IsNotExtractEvent)
      IN
        /\ SleepCount = IF n = 0 THEN 0 ELSE n - 1
        /\ Len(steps) = IF n = 0 THEN 0 ELSE 2 * n - 1
        /\ \A p \in 1..Len(steps) :
             IF p % 2 = 1
             THEN IsFetchEvent(steps[p]) /\ steps[p][2] = (p + 1) \div 2
             ELSE steps[p] = <<"sleep", RunDelay>>

C2_Witness ==
    /\ Returned
    /\ Len(RunUrls) = 2
    /\ RunDelay = 2
    /\ AllFetchesSucceeded
    /\ SleepCount = 1

(***************************************************************************)
(* C3.  Partial-failure isolation in extract_reviews: the list returned    *)
(* holds one record for each well-formed container of the document, in     *)
(* document order, and nothing else; each container with a sub-field       *)
(* missing (one of the six, or more) gave no record and exactly one entry  *)
(* "Failed to parse review: {cause}" in the log; a document without        *)
(* containers returns the empty list and logs nothing.                     *)
(***************************************************************************)
C3_PartialFailureIsolation ==
    last[1] = "extract_reviews" =>
      LET doc == last[2]
          good == SelectSeq(doc, WellFormed)
      IN
        /\ ret = [k \in 1..Len(good) |-> BuildReview(good[k])]
        /\ NewErrors = [k \in 1..(Len(doc) - Len(good)) |->
                          <<"Failed to parse review: ",
                            "'NoneType' object has no attribute 'text'">>]
        /\ doc = <<>> => ret = <<>> /\ errors0 = Len(errors)

\* a malformed container before a well-formed one, on a log that has an entry
C3_Witness ==
    /\ last = <<"extract_reviews", <<Missing("date"), WellFormedB>>>>
    /\ ret = <<BuildReview(WellFormedB)>>
    /\ errors0 = 1
    /\ Len(errors) = 2

(***************************************************************************)
(* C8.  scrape_multiple_pages processes the URLs strictly in list order    *)
(* with no retries: at any moment of a run the fetches made are those of   *)
(* URLs 1..m, each once and in order, and the extraction of a fetched page *)
(* comes directly after its fetch, before any other fetch.  When the run   *)
(* has returned every URL was fetched, the sequence returned is the        *)
(* concatenation, in URL-list order, of the records extracted from each    *)
(* fetched page, and self.reviews equals it.                               *)
(***************************************************************************)
C8_ListOrderNoRetry ==
    /\ last[1] = "scrape_multiple_pages" =>
         /\ Len(FetchEvents) <= Len(RunUrls)
         /\ \A k \in 1..Len(FetchEvents) :
              FetchEvents[k][2] = k /\ FetchEvents[k][3] = RunUrls[k]
         /\ \A p \in 1..Len(trace) :
              (IsFetchEvent(trace[p]) /\ FetchSucceeded(trace[p]))
                 => IF p = Len(trace)
                    THEN pc = "extract"
                    ELSE trace[p + 1] = <<"extract", trace[p][2]>>
    /\ Returned =>
         /\ Len(FetchEvents) = Len(RunUrls)
         /\ ret = ConcatPages(FetchEvents)
         /\ reviews = ret

\* two different pages fetched, the records of the first before those of the second
C8_Witness ==
    /\ Returned
    /\ Len(RunUrls) = 2
    /\ AllFetchesSucceeded
    /\ FetchedDoc(FetchEvents[1]) = <<WellFormedA, Missing("rating")>>
    /\ FetchedDoc(FetchEvents[2]) = <<WellFormedB>>
    /\ ret = <<BuildReview(WellFormedA), BuildReview(WellFormedB)>>
    /\ reviews = ret

(***************************************************************************)
(* C4.  With an empty self.reviews, export_to_csv and export_to_json       *)
(* return False and get_statistics returns {}; the call writes no file     *)
(* and changes neither self.reviews nor self.errors, whatever the log      *)
(* holds.                                                                  *)
(***************************************************************************)
C4_EmptyReviews ==
    [][(reviews = <<>>
        /\ last'[1] \in {"export_to_csv", "export_to_json", "get_statistics"})
       => /\ IF last'[1] = "get_statistics" THEN ret' = <<>> ELSE ret' = FALSE
          /\ files' = files
          /\ reviews' = reviews
          /\ errors' = errors]_vars

\* an export on a scraper whose run gave no review but logged errors
C4_Witness ==
    /\ reviews = <<>>
    /\ errors # <<>>
    /\ last[1] = "export_to_json"
    /\ ret = FALSE
    /\ files[last[2]] = None
    /\ disk[last[2]] = "ok"

(***************************************************************************)
(* C5.  A successful export writes self.reviews as it is at that moment:   *)
(* the CSV file is the header of the six field names followed by one row   *)
(* per record, in order, holding that record's values; the JSON file reads *)
(* back as the sequence of records; self.reviews is left unchanged.        *)
(***************************************************************************)
CsvHolds(file, revs) ==
    /\ file # None
    /\ Len(file[1]) = Len(revs) + 1
    /\ file[1][1] = [k \in 1..Len(Fields) |-> <<"name", Fields[k]>>]
    /\ \A n \in 1..Len(revs) :
         file[1][n + 1] = [k \in 1..Len(Fields) |-> <<"cell", revs[n][k][2]>>]

\* json.load of a token sequence: the objects read so far and the open one
RECURSIVE JsonRead(_, _, _, _)
JsonRead(tokens, k, objects, open) ==
    IF k > Len(tokens) THEN objects
    ELSE CASE tokens[k][1] = "["      -> JsonRead(tokens, k + 1, objects, open)
           [] tokens[k][1] = "{"      -> JsonRead(tokens, k + 1, objects, <<>>)
           [] tokens[k][1] = "member" ->
                JsonRead(tokens, k + 1, objects,
                         Append(open, <<tokens[k][2], tokens[k][3]>>))
           [] tokens[k][1] = "}"      -> JsonRead(tokens, k + 1, Append(objects, open), <<>>)
           [] tokens[k][1] = "]"      -> objects

JsonHolds(file, revs) ==
    /\ file # None
    /\ JsonRead(file[1], 1, <<>>, <<>>) = revs

C5_ExportEqualsReviews ==
    [][/\ (last'[1] = "export_to_csv" /\ ret' = TRUE)
          => reviews' = reviews /\ CsvHolds(files'[last'[2]], reviews)
       /\ (last'[1] = "export_to_json" /\ ret' = TRUE)
          => reviews' = reviews /\ JsonHolds(files'[last'[2]], reviews)]_vars

\* the four records of two pages exported to CSV
C5_Witness ==
    /\ last[1] = "export_to_csv"
    /\ ret = TRUE
    /\ Len(reviews) = 4
    /\ reviews[1] # reviews[2]
    /\ CsvHolds(files[last[2]], reviews)

(***************************************************************************)
(* C6.  An export of a non-empty self.reviews never raises.  If the write  *)
(* fails it returns False and appends exactly one entry, "Failed to export *)
(* CSV: {cause}" or "Failed to export JSON: {cause}", to the log; if the   *)
(* write succeeds it returns True and appends nothing.  Either way         *)
(* self.reviews is unchanged.                                              *)
(***************************************************************************)
ExportOutcome(prefix) ==
    /\ pc' # "raised"
    /\ reviews' = reviews
    /\ IF disk[last'[2]] = "ok"
       THEN ret' = TRUE /\ errors' = errors
       ELSE /\ ret' = FALSE
            /\ Len(errors') = Len(errors) + 1
            /\ SubSeq(errors', 1, Len(errors)) = errors
            /\ Len(errors'[Len(errors')]) = 2
            /\ errors'[Len(errors')][1] = prefix

C6_WriteFailureRecorded ==
    [][/\ (last'[1] = "export_to_csv" /\ reviews # <<>>)
          => ExportOutcome("Failed to export CSV: ")
       /\ (last'[1] = "export_to_json" /\ reviews # <<>>)
          => ExportOutcome("Failed to export JSON: ")]_vars

\* a JSON export that failed on a log that already had an entry
C6_Witness ==
    /\ last[1] = "export_to_json"
    /\ reviews # <<>>
    /\ ret = FALSE
    /\ errors0 = 1
    /\ Len(errors) = 2
    /\ errors[2] = <<"Failed to export JSON: ", "No space left on device">>

(***************************************************************************)
(* C7.  Export idempotence: when export_to_csv (or export_to_json) is      *)
(* called twice in succession with the same destination, nothing having    *)
(* happened in between to the scraper or to the destination, the second    *)
(* call returns the boolean the first returned and leaves in the file      *)
(* exactly the bytes the first left.                                       *)
(***************************************************************************)
C7_ExportIdempotent ==
    [][(last' = last /\ last[1] \in {"export_to_csv", "export_to_json"})
       => ret' = ret /\ files' = files /\ reviews' = reviews]_vars

\* the second of two successful CSV exports
C7_Witness ==
    /\ last[1] = "export_to_csv"
    /\ rep
    /\ ret = TRUE
    /\ files[last[2]] = Some(CsvText(reviews))

(***************************************************************************)
(* C9 as the specification states it: no operation on the scraper removes  *)
(* a review stored in self.reviews.                                        *)
(***************************************************************************)
C9_Original ==
    [][\A k \in 1..Len(reviews) :
         \E j \in 1..Len(reviews') : reviews'[j] = reviews[k]]_vars

(***************************************************************************)
(* C9, amended.  self.reviews is changed by nothing but the return of      *)
(* scrape_multiple_pages, which replaces it by the sequence that call      *)
(* collected; the reviews of an earlier call are kept only if the later    *)
(* call collects them again.                                               *)
(***************************************************************************)
C9_ReplacedByEachRun ==
    [][reviews' # reviews
       => /\ pc = "fetch"
          /\ pc' = "idle"
          /\ last'[1] = "scrape_multiple_pages"
          /\ reviews' = all_reviews
          /\ ret' = all_reviews]_vars

\* a second run, which found nothing, has emptied self.reviews
C9_Witness ==
    /\ Returned
    /\ rep
    /\ reviews = <<>>
    /\ files["reviews.csv"] # None
    /\ files["reviews.csv"] # Some(<<>>)

(***************************************************************************)
(* C10.  The error log is append-only: over every step of every            *)
(* operation the log before is a prefix of the log after; one fetch_page   *)
(* call appends at most one entry and get_statistics appends none.         *)
(***************************************************************************)
C10_ErrorLogAppendOnly ==
    [][/\ IsPrefix(errors, errors')
       /\ ((pc = "fetch" /\ pc' = "extract") \/ last'[1] = "fetch_page")
            => Len(errors') <= Len(errors) + 1
       /\ last'[1] = "get_statistics" => errors' = errors]_vars

\* a repeated scrape run appended to the log the run before it had left
C10_Witness ==
    /\ Returned
    /\ rep
    /\ errors0 >= 1
    /\ Len(errors) > errors0
    /\ errors[1][1] = "Failed to fetch "
    /\ errors[Len(errors)][1] = "Failed to parse review: "

====
